---- MODULE Spec2Model ----
(***************************************************************************)
(* Model of env_dev.py: provisioning of developer accounts (useradd, sudo  *)
(* grant, SSH keys) and of a shared project directory.  Every              *)
(* subprocess.run(...) and the open()/write() of the sudoers file is one   *)
(* step; the host (accounts, filesystem) is part of the state.             *)
(***************************************************************************)
EXTENDS Integers, Sequences, FiniteSets, TLC

\* ------------------------------------------------------------------ bounds
MaxLen == 2        \* longest developer list
MaxFaults == 1     \* environmental failures injected during one behaviour
MaxRuns == 2       \* invocations of create_devs with the same arguments

Devs == {"alice", "bob"}
ProjectNames == {"webapp"}
None == "None"
Root == "root"

VARIABLES
  pc,            \* position in the program
  config,        \* config.yml as main() will read it, NoConfig once read / not used
  dev_list,      \* create_devs: dev_list
  project_name,  \* create_devs: project_name
  results,       \* create_devs: results (None = key not present)
  i,             \* create_devs: position of `dev` in dev_list
  success,       \* create_devs: success (return value of create_dev_user)
  j,             \* create_shared_project: position of `username` in usernames
  shared_ok,     \* return value of create_shared_project in this run
  accounts,      \* host: existing OS accounts
  fs,            \* host: filesystem nodes
  log,           \* history: every operation issued, with its outcome
  faults,        \* number of environmental failures injected so far
  run            \* number of the current invocation of create_devs

vars == <<pc, config, dev_list, project_name, results, i, success, j,
          shared_ok, accounts, fs, log, faults, run>>

\* ------------------------------------------------------------ host: paths
Home(u) == <<"home", u>>                      \* /home/{u}
SshDir(u) == <<"ssh", u>>                     \* /home/{u}/.ssh
IdRsa(u) == <<"id_rsa", u>>                   \* /home/{u}/.ssh/id_rsa
IdRsaPub(u) == <<"id_rsa.pub", u>>            \* /home/{u}/.ssh/id_rsa.pub
AuthKeys(u) == <<"authorized_keys", u>>       \* /home/{u}/.ssh/authorized_keys
SudoersFile(u) == <<"sudoers.d", u>>          \* /etc/sudoers.d/{u}
RootProjectDir(p) == <<"opt", p>>             \* /opt/{p}
PublicDir(p) == <<"opt_public", p>>           \* /opt/{p}/public
UserProjectDir(u, p) == <<"user_project", u, p>>   \* /home/{u}/{p}
UserPublicLink(u, p) == <<"user_public", u, p>>    \* /home/{u}/{p}/public

Paths ==
  UNION { {Home(u), SshDir(u), IdRsa(u), IdRsaPub(u), AuthKeys(u), SudoersFile(u)}
          : u \in Devs }
  \cup UNION { {RootProjectDir(p), PublicDir(p)} : p \in ProjectNames }
  \cup { UserProjectDir(u, p) : u \in Devs, p \in ProjectNames }
  \cup { UserPublicLink(u, p) : u \in Devs, p \in ProjectNames }

\* The directories that contain a path, outermost first (/home, /opt and
\* /etc/sudoers.d always exist and are not modelled).
Ancestors(path) ==
  CASE path[1] = "ssh" -> <<Home(path[2])>>
    [] path[1] \in {"id_rsa", "id_rsa.pub", "authorized_keys"} ->
         <<Home(path[2]), SshDir(path[2])>>
    [] path[1] = "opt_public" -> <<RootProjectDir(path[2])>>
    [] path[1] = "user_project" -> <<Home(path[2])>>
    [] path[1] = "user_public" -> <<Home(path[2]), UserProjectDir(path[2], path[3])>>
    [] OTHER -> << >>

Range(s) == { s[k] : k \in DOMAIN s }

\* ------------------------------------------------------------ host: nodes
Absent == [kind |-> "absent", owner |-> "", mode |-> 0, lines |-> << >>, target |-> << >>]
Dir(o, m) == [kind |-> "dir", owner |-> o, mode |-> m, lines |-> << >>, target |-> << >>]
File(o, m, l) == [kind |-> "file", owner |-> o, mode |-> m, lines |-> l, target |-> << >>]
Link(o, t) == [kind |-> "link", owner |-> o, mode |-> 777, lines |-> << >>, target |-> t]

Exists(f, path) == f[path].kind # "absent"
\* Where a path leads once a symbolic link in its last component is followed.
Resolve(f, path) == IF f[path].kind = "link" THEN f[path].target ELSE path
\* pathlib.Path.exists(): follows symbolic links.
PathExists(f, path) == Exists(f, path) /\ Exists(f, Resolve(f, path))
IsDir(f, path) == PathExists(f, path) /\ f[Resolve(f, path)].kind = "dir"
ParentOk(f, path) == \A a \in Range(Ancestors(path)) : IsDir(f, a)

\* The sudoers rule written by configure_sudo, as its fields.
SudoRule(u) == <<u, "ALL=(ALL)", "NOPASSWD:ALL">>
\* The arguments handed to ssh-keygen ('-N', '""' is passed without a shell,
\* so the passphrase is the two-character string of two double quotes).
KeyType == "rsa"
KeyBits == "4096"
Passphrase == "\"\""
PrivateKey == <<KeyType, KeyBits, Passphrase>>

\* ------------------------------------------------- host: the operations
\* A command as handed to subprocess.run (or, for op = "write", the
\* open(...,'w') / f.write pair of configure_sudo).
Cmd(op, user, path, mode, target) ==
  [op |-> op, user |-> user, path |-> path, mode |-> mode, target |-> target]

Useradd(u) == Cmd("useradd", u, Home(u), 0, << >>)
WriteSudoers(u) == Cmd("write", u, SudoersFile(u), 0, << >>)
Chmod(m, path) == Cmd("chmod", "", path, m, << >>)
Chown(o, path) == Cmd("chown", o, path, 0, << >>)
ChownR(o, path) == Cmd("chown-R", o, path, 0, << >>)
MkdirP(path) == Cmd("mkdir-p", "", path, 0, << >>)
SshKeygen(path) == Cmd("ssh-keygen", "", path, 0, << >>)
Touch(path) == Cmd("touch", "", path, 0, << >>)
Rm(path) == Cmd("rm", "", path, 0, << >>)
LnS(t, path) == Cmd("ln-s", "", path, 0, t)
Cat(path) == Cmd("cat", "", path, 0, << >>)

Outcome(ok, a, f) == [ok |-> ok, accounts |-> a, fs |-> f]
Below(path) == { q \in Paths : path \in Range(Ancestors(q)) }
ValidOwner(a, o) == o = Root \/ o \in a

\* Variant: an existing account is accepted instead of refused.
SemUseraddExisting(a, f, c) ==
  Outcome(TRUE, a \cup {c.user},
          [f EXCEPT ![c.path] = IF Exists(f, c.path) THEN @ ELSE Dir(c.user, 755)])

\* useradd -m -s /bin/bash u: refuses an existing name; creates the home
\* directory unless one is already there.
SemUseradd(a, f, c) ==
  IF c.user \in a THEN Outcome(FALSE, a, f)
  ELSE Outcome(TRUE, a \cup {c.user},
               [f EXCEPT ![c.path] = IF Exists(f, c.path) THEN @ ELSE Dir(c.user, 755)])

\* open(path, 'w'); write(rule): creates or truncates, keeps an existing mode.
SemWrite(a, f, c) ==
  Outcome(TRUE, a,
          [f EXCEPT ![c.path] = IF Exists(f, c.path)
                                THEN [@ EXCEPT !.lines = <<SudoRule(c.user)>>]
                                ELSE File(Root, 644, <<SudoRule(c.user)>>)])

\* chmod m path: follows a symbolic link given on the command line.
SemChmod(a, f, c) ==
  IF ~PathExists(f, c.path) THEN Outcome(FALSE, a, f)
  ELSE Outcome(TRUE, a, [f EXCEPT ![Resolve(f, c.path)].mode = c.mode])

\* chown o:o path: follows a symbolic link given on the command line (no -h);
\* fails for an unknown user or a missing path.
SemChown(a, f, c) ==
  IF ~ValidOwner(a, c.user) \/ ~PathExists(f, c.path) THEN Outcome(FALSE, a, f)
  ELSE Outcome(TRUE, a, [f EXCEPT ![Resolve(f, c.path)].owner = c.user])

\* chown -R o:o dir: the directory and everything that exists below it.
SemChownR(a, f, c) ==
  IF ~ValidOwner(a, c.user) \/ ~PathExists(f, c.path) THEN Outcome(FALSE, a, f)
  ELSE Outcome(TRUE, a,
               [q \in Paths |->
                  IF (q = Resolve(f, c.path) \/ q \in Below(c.path)) /\ Exists(f, q)
                  THEN [f[q] EXCEPT !.owner = c.user] ELSE f[q]])

\* mkdir -p path: creates the path and its missing parents, as the caller
\* (root); succeeds when the directory is already there.
SemMkdirP(a, f, c) ==
  LET chain == Range(Ancestors(c.path)) \cup {c.path}
  IN  IF \E q \in chain : Exists(f, q) /\ ~IsDir(f, q) THEN Outcome(FALSE, a, f)
      ELSE Outcome(TRUE, a,
                   [q \in Paths |-> IF q \in chain /\ ~Exists(f, q)
                                    THEN Dir(Root, 755) ELSE f[q]])

\* ssh-keygen -t rsa -b 4096 -f path -N '""': writes path and path.pub as
\* the caller (root); does not overwrite an existing key without a prompt.
SemSshKeygen(a, f, c) ==
  IF ~ParentOk(f, c.path) \/ Exists(f, c.path) THEN Outcome(FALSE, a, f)
  ELSE Outcome(TRUE, a,
               [f EXCEPT ![c.path] = File(Root, 600, <<PrivateKey>>),
                         ![IdRsaPub(c.path[2])] = File(Root, 644, <<KeyType>>)])

\* touch path: creates an empty file as the caller (root) if there is none.
SemTouch(a, f, c) ==
  IF ~ParentOk(f, c.path) THEN Outcome(FALSE, a, f)
  ELSE Outcome(TRUE, a,
               [f EXCEPT ![c.path] = IF Exists(f, c.path) THEN @
                                     ELSE File(Root, 644, << >>)])

\* rm path
SemRm(a, f, c) ==
  IF ~Exists(f, c.path) THEN Outcome(FALSE, a, f)
  ELSE Outcome(TRUE, a, [f EXCEPT ![c.path] = Absent])

\* ln -s target path: refuses an existing path; the link belongs to the caller.
SemLnS(a, f, c) ==
  IF ~ParentOk(f, c.path) \/ Exists(f, c.path) THEN Outcome(FALSE, a, f)
  ELSE Outcome(TRUE, a, [f EXCEPT ![c.path] = Link(Root, c.target)])

\* cat path
SemCat(a, f, c) == Outcome(PathExists(f, c.path), a, f)

Sem(a, f, c) ==
  CASE c.op = "useradd" -> SemUseradd(a, f, c)
    [] c.op = "write" -> SemWrite(a, f, c)
    [] c.op = "chmod" -> SemChmod(a, f, c)
    [] c.op = "chown" -> SemChown(a, f, c)
    [] c.op = "chown-R" -> SemChownR(a, f, c)
    [] c.op = "mkdir-p" -> SemMkdirP(a, f, c)
    [] c.op = "ssh-keygen" -> SemSshKeygen(a, f, c)
    [] c.op = "touch" -> SemTouch(a, f, c)
    [] c.op = "rm" -> SemRm(a, f, c)
    [] c.op = "ln-s" -> SemLnS(a, f, c)
    [] c.op = "cat" -> SemCat(a, f, c)

\* What one operation can do in the current host state: what the command
\* does by itself, or (while the budget lasts) an environmental failure.  A
\* command that exits non-zero gives CalledProcessError under check=True; a
\* file that cannot be opened, or not written once opened and truncated,
\* gives IOError.  The commands themselves can always be started (sudo and the
\* tools are installed).
Result(res, a, f, cost) == [res |-> res, accounts |-> a, fs |-> f, cost |-> cost]
Outcomes(c) ==
  LET s == Sem(accounts, fs, c)
  IN  { Result(IF s.ok THEN "ok" ELSE "CalledProcessError", s.accounts, s.fs, 0) }
      \cup
      IF faults >= MaxFaults THEN {}
      ELSE IF c.op = "write"
           THEN { Result("IOError", accounts, fs, 1),
                  Result("IOError", accounts,
                         [fs EXCEPT ![c.path] = IF Exists(fs, c.path)
                                                THEN [@ EXCEPT !.lines = << >>]
                                                ELSE File(Root, 644, << >>)], 1) }
           ELSE { Result("CalledProcessError", accounts, fs, 1) }

\* ------------------------------------------------------------ the program
Lists == UNION { [1..n -> Devs] : n \in 0..MaxLen }

\* config.yml: unreadable, or a 'devs' string of comma-separated items and
\* an optional 'project'.
RawItems == {"alice", " bob", " "}
Strip(raw) == CASE raw = " bob" -> "bob" [] raw = " " -> "" [] OTHER -> raw
NoConfig == [readable |-> FALSE, devs |-> << >>, project |-> "-"]
Unreadable == [readable |-> FALSE, devs |-> << >>, project |-> None]
Configs ==
  {Unreadable} \cup
  { [readable |-> TRUE, devs |-> d, project |-> p] :
      d \in UNION { [1..n -> RawItems] : n \in 0..MaxLen },
      p \in {None} \cup ProjectNames }

RECURSIVE Filter(_)
\* [d.strip() for d in devs if d.strip()]
Filter(raw) ==
  IF raw = << >> THEN << >>
  ELSE IF Strip(Head(raw)) = "" THEN Filter(Tail(raw))
       ELSE <<Strip(Head(raw))>> \o Filter(Tail(raw))

NoResults == [d \in Devs |-> None]

Init ==
  /\ accounts \in SUBSET Devs
  /\ fs = [q \in Paths |-> IF q[1] = "home" /\ q[2] \in accounts
                           THEN Dir(q[2], 755) ELSE Absent]
  /\ \/ /\ pc = "main"
        /\ config \in Configs
        /\ dev_list = << >>
        /\ project_name = None
     \/ /\ pc = "create_devs"
        /\ config = NoConfig
        /\ dev_list \in Lists
        /\ project_name \in {None} \cup ProjectNames
  /\ results = NoResults
  /\ i = 0
  /\ j = 0
  /\ success = None
  /\ shared_ok = None
  /\ log = << >>
  /\ faults = 0
  /\ run = 1

\* Where control goes after an operation, with the values returned on the way.
Goto(l) == [pc |-> l, success |-> success, shared_ok |-> shared_ok]
\* create_dev_user returns b to create_devs (line 98).
DevReturn(b) == [pc |-> "record", success |-> b, shared_ok |-> shared_ok]
\* create_shared_project returns b to create_devs (line 104).
SharedReturn(b) == [pc |-> "return", success |-> success, shared_ok |-> b]
\* An exception that no handler on the call stack catches.
Raise == [pc |-> "raised", success |-> success, shared_ok |-> shared_ok]

Entry(c, fn, o) ==
  [op |-> c.op, user |-> c.user, path |-> c.path, mode |-> c.mode,
   target |-> c.target, res |-> o.res, injected |-> o.cost = 1, fn |-> fn,
   pos |-> IF fn = "create_shared_project" THEN j ELSE i, run |-> run]

\* One subprocess.run (or open/write) inside a try block: `check` is
\* check=True, `caught` the classes of the except clauses around it.
Subprocess(c, fn, check, caught, onOk, onExcept) ==
  \E o \in Outcomes(c) :
    LET exc == IF o.res = "ok" \/ (o.res = "CalledProcessError" /\ ~check)
               THEN "none" ELSE o.res
        k == IF exc = "none" THEN onOk
             ELSE IF exc \in caught THEN onExcept ELSE Raise
    IN  /\ accounts' = o.accounts
        /\ fs' = o.fs
        /\ faults' = faults + o.cost
        /\ log' = Append(log, Entry(c, fn, o))
        /\ pc' = k.pc
        /\ success' = k.success
        /\ shared_ok' = k.shared_ok
        /\ UNCHANGED <<config, dev_list, project_name, results, i, j, run>>

dev == dev_list[i]
username == dev_list[j]

\* ---- main / load_config
load_config ==
  /\ pc = "main"
  /\ dev_list' = IF config.readable THEN Filter(config.devs) ELSE << >>
  /\ project_name' = IF config.readable THEN config.project ELSE None
  /\ config' = NoConfig
  /\ pc' = "main_check"
  /\ UNCHANGED <<results, i, success, j, shared_ok, accounts, fs, log, faults, run>>

main_check ==
  /\ pc = "main_check"
  /\ pc' = IF dev_list = << >> THEN "exit" ELSE "create_devs"
  /\ UNCHANGED <<config, dev_list, project_name, results, i, success, j,
                 shared_ok, accounts, fs, log, faults, run>>

\* ---- create_devs
create_devs ==
  /\ pc = "create_devs"
  /\ results' = NoResults
  /\ i' = 0
  /\ j' = 0
  /\ success' = None
  /\ shared_ok' = None
  /\ pc' = "devs_loop"
  /\ UNCHANGED <<config, dev_list, project_name, accounts, fs, log, faults, run>>

\* Variant: the loop gives up after a developer that failed.
devs_loop_break ==
  /\ pc = "devs_loop"
  /\ IF i < Len(dev_list) /\ success # "False"
     THEN i' = i + 1 /\ pc' = "useradd"
     ELSE i' = i /\ pc' = "project_check"
  /\ UNCHANGED <<config, dev_list, project_name, results, success, j,
                 shared_ok, accounts, fs, log, faults, run>>


devs_loop ==
  /\ pc = "devs_loop"
  /\ IF i < Len(dev_list)
     THEN i' = i + 1 /\ pc' = "useradd"
     ELSE i' = i /\ pc' = "project_check"
  /\ UNCHANGED <<config, dev_list, project_name, results, success, j,
                 shared_ok, accounts, fs, log, faults, run>>

\* Variant: a developer that failed is rolled back (userdel).
record_result_rollback ==
  /\ pc = "record"
  /\ results' = [results EXCEPT ![dev] = IF success = "True" THEN "Success" ELSE "Failed"]
  /\ accounts' = IF success = "True" THEN accounts ELSE accounts \ {dev}
  /\ pc' = "devs_loop"
  /\ UNCHANGED <<config, dev_list, project_name, i, success, j,
                 shared_ok, fs, log, faults, run>>

\* Variant: one overall flag, so that a failure sticks to later developers.
record_result_sticky ==
  /\ pc = "record"
  /\ results' = [results EXCEPT ![dev] =
                   IF success = "True" /\ \A d \in Devs : results[d] # "Failed"
                   THEN "Success" ELSE "Failed"]
  /\ pc' = "devs_loop"
  /\ UNCHANGED <<config, dev_list, project_name, i, success, j,
                 shared_ok, accounts, fs, log, faults, run>>


record_result ==
  /\ pc = "record"
  /\ results' = [results EXCEPT ![dev] = IF success = "True" THEN "Success" ELSE "Failed"]
  /\ pc' = "devs_loop"
  /\ UNCHANGED <<config, dev_list, project_name, i, success, j,
                 shared_ok, accounts, fs, log, faults, run>>

\* Variant: the shared project is built whether or not a name was given.
project_check_always ==
  /\ pc = "project_check"
  /\ pc' = "sp_mkdir_root"
  /\ UNCHANGED <<config, dev_list, project_name, results, i, success, j,
                 shared_ok, accounts, fs, log, faults, run>>


project_check ==
  /\ pc = "project_check"
  /\ pc' = IF project_name # None THEN "sp_mkdir_root" ELSE "return"
  /\ UNCHANGED <<config, dev_list, project_name, results, i, success, j,
                 shared_ok, accounts, fs, log, faults, run>>

return_results ==
  /\ pc = "return"
  /\ pc' = "done"
  /\ UNCHANGED <<config, dev_list, project_name, results, i, success, j,
                 shared_ok, accounts, fs, log, faults, run>>

\* The operator runs create_devs again with the same arguments.
rerun ==
  /\ pc = "done"
  /\ run < MaxRuns
  /\ run' = run + 1
  /\ pc' = "create_devs"
  /\ UNCHANGED <<config, dev_list, project_name, results, i, success, j,
                 shared_ok, accounts, fs, log, faults>>

\* ---- create_dev_user / configure_sudo / setup_ssh_keys
CPE == {"CalledProcessError"}
IOErrorOrCPE == {"IOError", "CalledProcessError"}

\* Variant: useradd run without check=True.
useradd_unchecked ==
  /\ pc = "useradd"
  /\ Subprocess(Useradd(dev), "create_dev_user", FALSE, CPE,
                Goto("sudo_write"), DevReturn("False"))


useradd ==
  /\ pc = "useradd"
  /\ Subprocess(Useradd(dev), "create_dev_user", TRUE, CPE,
                Goto("sudo_write"), DevReturn("False"))

\* Variant: configure_sudo catches CalledProcessError only.
sudo_write_uncaught ==
  /\ pc = "sudo_write"
  /\ Subprocess(WriteSudoers(dev), "configure_sudo", TRUE, CPE,
                Goto("sudo_chmod"), DevReturn("False"))


sudo_write ==
  /\ pc = "sudo_write"
  /\ Subprocess(WriteSudoers(dev), "configure_sudo", TRUE, IOErrorOrCPE,
                Goto("sudo_chmod"), DevReturn("False"))

\* Variant: the chmod of the sudoers file run without check=True.
sudo_chmod_unchecked ==
  /\ pc = "sudo_chmod"
  /\ Subprocess(Chmod(440, SudoersFile(dev)), "configure_sudo", FALSE, IOErrorOrCPE,
                Goto("ssh_mkdir"), DevReturn("False"))

\* Variant: the sudoers file restricted to 644 instead of 440.
sudo_chmod_644 ==
  /\ pc = "sudo_chmod"
  /\ Subprocess(Chmod(644, SudoersFile(dev)), "configure_sudo", TRUE, IOErrorOrCPE,
                Goto("ssh_mkdir"), DevReturn("False"))


sudo_chmod ==
  /\ pc = "sudo_chmod"
  /\ Subprocess(Chmod(440, SudoersFile(dev)), "configure_sudo", TRUE, IOErrorOrCPE,
                Goto("ssh_mkdir"), DevReturn("False"))

ssh_mkdir ==
  /\ pc = "ssh_mkdir"
  /\ Subprocess(MkdirP(SshDir(dev)), "setup_ssh_keys", TRUE, CPE,
                Goto("ssh_keygen"), DevReturn("False"))

ssh_keygen ==
  /\ pc = "ssh_keygen"
  /\ Subprocess(SshKeygen(IdRsa(dev)), "setup_ssh_keys", TRUE, CPE,
                Goto("ssh_chown"), DevReturn("False"))

ssh_chown ==
  /\ pc = "ssh_chown"
  /\ Subprocess(ChownR(dev, SshDir(dev)), "setup_ssh_keys", TRUE, CPE,
                Goto("ssh_chmod_dir"), DevReturn("False"))

ssh_chmod_dir ==
  /\ pc = "ssh_chmod_dir"
  /\ Subprocess(Chmod(700, SshDir(dev)), "setup_ssh_keys", TRUE, CPE,
                Goto("ssh_chmod_key"), DevReturn("False"))

ssh_chmod_key ==
  /\ pc = "ssh_chmod_key"
  /\ Subprocess(Chmod(600, IdRsa(dev)), "setup_ssh_keys", TRUE, CPE,
                Goto("ssh_chmod_pub"), DevReturn("False"))

ssh_chmod_pub ==
  /\ pc = "ssh_chmod_pub"
  /\ Subprocess(Chmod(644, IdRsaPub(dev)), "setup_ssh_keys", TRUE, CPE,
                Goto("ssh_touch"), DevReturn("False"))

ssh_touch ==
  /\ pc = "ssh_touch"
  /\ Subprocess(Touch(AuthKeys(dev)), "setup_ssh_keys", TRUE, CPE,
                Goto("ssh_chmod_auth"), DevReturn("False"))

\* Variant: authorized_keys left world-readable.
ssh_chmod_auth_644 ==
  /\ pc = "ssh_chmod_auth"
  /\ Subprocess(Chmod(644, AuthKeys(dev)), "setup_ssh_keys", TRUE, CPE,
                Goto("ssh_rm_pub"), DevReturn("False"))


ssh_chmod_auth ==
  /\ pc = "ssh_chmod_auth"
  /\ Subprocess(Chmod(600, AuthKeys(dev)), "setup_ssh_keys", TRUE, CPE,
                Goto("ssh_rm_pub"), DevReturn("False"))

ssh_rm_pub ==
  /\ pc = "ssh_rm_pub"
  /\ Subprocess(Rm(IdRsaPub(dev)), "setup_ssh_keys", TRUE, CPE,
                Goto("ssh_cat"), DevReturn("False"))

\* line 39 has no check=True: a non-zero exit of cat is not an exception.
ssh_cat ==
  /\ pc = "ssh_cat"
  /\ Subprocess(Cat(IdRsa(dev)), "setup_ssh_keys", FALSE, CPE,
                DevReturn("True"), DevReturn("False"))

\* ---- create_shared_project(project_name, dev_list)
sp_mkdir_root ==
  /\ pc = "sp_mkdir_root"
  /\ Subprocess(MkdirP(RootProjectDir(project_name)), "create_shared_project", TRUE, CPE,
                Goto("sp_chown_root"), SharedReturn("False"))

sp_chown_root ==
  /\ pc = "sp_chown_root"
  /\ Subprocess(Chown(Root, RootProjectDir(project_name)), "create_shared_project", TRUE, CPE,
                Goto("sp_chmod_root"), SharedReturn("False"))

sp_chmod_root ==
  /\ pc = "sp_chmod_root"
  /\ Subprocess(Chmod(755, RootProjectDir(project_name)), "create_shared_project", TRUE, CPE,
                Goto("sp_mkdir_public"), SharedReturn("False"))

sp_mkdir_public ==
  /\ pc = "sp_mkdir_public"
  /\ Subprocess(MkdirP(PublicDir(project_name)), "create_shared_project", TRUE, CPE,
                Goto("sp_chown_public"), SharedReturn("False"))

sp_chown_public ==
  /\ pc = "sp_chown_public"
  /\ Subprocess(Chown(Root, PublicDir(project_name)), "create_shared_project", TRUE, CPE,
                Goto("sp_chmod_public"), SharedReturn("False"))

sp_chmod_public ==
  /\ pc = "sp_chmod_public"
  /\ Subprocess(Chmod(755, PublicDir(project_name)), "create_shared_project", TRUE, CPE,
                Goto("sp_loop"), SharedReturn("False"))

sp_loop ==
  /\ pc = "sp_loop"
  /\ IF j < Len(dev_list)
     THEN j' = j + 1 /\ pc' = "sp_mkdir_user" /\ shared_ok' = shared_ok
     ELSE j' = j /\ pc' = "return" /\ shared_ok' = "True"
  /\ UNCHANGED <<config, dev_list, project_name, results, i, success,
                 accounts, fs, log, faults, run>>

sp_mkdir_user ==
  /\ pc = "sp_mkdir_user"
  /\ Subprocess(MkdirP(UserProjectDir(username, project_name)), "create_shared_project",
                TRUE, CPE, Goto("sp_chown_user"), SharedReturn("False"))

\* Variant: the ownership of the project directory set without check=True.
sp_chown_user_unchecked ==
  /\ pc = "sp_chown_user"
  /\ Subprocess(Chown(username, UserProjectDir(username, project_name)),
                "create_shared_project", FALSE, CPE,
                Goto("sp_chmod_user"), SharedReturn("False"))


sp_chown_user ==
  /\ pc = "sp_chown_user"
  /\ Subprocess(Chown(username, UserProjectDir(username, project_name)),
                "create_shared_project", TRUE, CPE,
                Goto("sp_chmod_user"), SharedReturn("False"))

sp_chmod_user ==
  /\ pc = "sp_chmod_user"
  /\ Subprocess(Chmod(755, UserProjectDir(username, project_name)),
                "create_shared_project", TRUE, CPE,
                Goto("sp_exists"), SharedReturn("False"))

\* Variant: the link is created without looking whether it exists.
sp_exists_unchecked ==
  /\ pc = "sp_exists"
  /\ pc' = "sp_ln"
  /\ UNCHANGED <<config, dev_list, project_name, results, i, success, j,
                 shared_ok, accounts, fs, log, faults, run>>

\* line 69: if not Path(user_public_link).exists()
sp_exists ==
  /\ pc = "sp_exists"
  /\ pc' = IF ~PathExists(fs, UserPublicLink(username, project_name))
           THEN "sp_ln" ELSE "sp_chown_link"
  /\ UNCHANGED <<config, dev_list, project_name, results, i, success, j,
                 shared_ok, accounts, fs, log, faults, run>>

\* Variant: the link points at the project root instead of its public directory.
sp_ln_to_root ==
  /\ pc = "sp_ln"
  /\ Subprocess(LnS(RootProjectDir(project_name), UserPublicLink(username, project_name)),
                "create_shared_project", TRUE, CPE,
                Goto("sp_chown_link"), SharedReturn("False"))


sp_ln ==
  /\ pc = "sp_ln"
  /\ Subprocess(LnS(PublicDir(project_name), UserPublicLink(username, project_name)),
                "create_shared_project", TRUE, CPE,
                Goto("sp_chown_link"), SharedReturn("False"))

sp_chown_link ==
  /\ pc = "sp_chown_link"
  /\ Subprocess(Chown(username, UserPublicLink(username, project_name)),
                "create_shared_project", TRUE, CPE,
                Goto("sp_loop"), SharedReturn("False"))

Next ==
  \/ load_config \/ main_check
  \/ create_devs \/ devs_loop \/ record_result \/ project_check
  \/ return_results
  \/ useradd \/ sudo_write \/ sudo_chmod
  \/ ssh_mkdir \/ ssh_keygen \/ ssh_chown \/ ssh_chmod_dir \/ ssh_chmod_key
  \/ ssh_chmod_pub \/ ssh_touch \/ ssh_chmod_auth \/ ssh_rm_pub \/ ssh_cat
  \/ sp_mkdir_root \/ sp_chown_root \/ sp_chmod_root
  \/ sp_mkdir_public \/ sp_chown_public \/ sp_chmod_public
  \/ sp_loop \/ sp_mkdir_user \/ sp_chown_user \/ sp_chmod_user
  \/ sp_exists \/ sp_ln \/ sp_chown_link

Spec == Init /\ [][Next]_vars

\* The same program on a host without earlier accounts, where the operator
\* may run create_devs again with the same arguments.
InitRerun == Init /\ accounts = {}
NextRerun == Next \/ rerun
RerunSpec == InitRerun /\ [][NextRerun]_vars

FairSpec == Spec /\ WF_vars(Next)

\* ------------------------------------------------------------- properties
DevFns == {"create_dev_user", "configure_sudo", "setup_ssh_keys"}
Last(s) == s[Len(s)]
Distinct(s) == \A p, q \in DOMAIN s : p # q => s[p] # s[q]
KeySet(r) == { d \in DOMAIN r : r[d] # None }

\* In the current run, the operation `op` on `path` issued for position p
\* ended with result ok.
OkAt(p, op, path) ==
  \E k \in DOMAIN log :
    /\ log[k].run = run /\ log[k].pos = p /\ log[k].fn \in DevFns
    /\ log[k].op = op /\ log[k].path = path /\ log[k].res = "ok"
UseraddFailedAt(p) ==
  \E k \in DOMAIN log :
    /\ log[k].run = run /\ log[k].pos = p
    /\ log[k].op = "useradd" /\ log[k].res # "ok"
\* Account creation, sudo grant and SSH provisioning all succeeded for position p.
StagesOkAt(p) ==
  /\ OkAt(p, "useradd", Home(dev_list[p]))
  /\ OkAt(p, "chmod", SudoersFile(dev_list[p]))
  /\ OkAt(p, "rm", IdRsaPub(dev_list[p]))
Provisioned(d) ==
  /\ d \in accounts
  /\ Exists(fs, SudoersFile(d)) /\ fs[SudoersFile(d)].mode = 440
  /\ Exists(fs, SshDir(d)) /\ Exists(fs, IdRsa(d)) /\ Exists(fs, AuthKeys(d))

\* C1: in a run over distinct developers, a developer whose account creation
\* failed is reported "Failed", a developer whose three stages all succeeded
\* is reported "Success" whatever their order, and the latter's account,
\* sudoers file (mode 440) and SSH artifacts are present when the run ends.
C1_Independence ==
  (pc = "done" /\ Distinct(dev_list)) =>
    \A p, q \in DOMAIN dev_list :
      (UseraddFailedAt(p) /\ StagesOkAt(q)) =>
        /\ results[dev_list[p]] = "Failed"
        /\ results[dev_list[q]] = "Success"
        /\ Provisioned(dev_list[q])

C1_Witness ==
  /\ pc = "done" /\ Distinct(dev_list)
  /\ \E p, q \in DOMAIN dev_list : p < q /\ UseraddFailedAt(p) /\ StagesOkAt(q)

C2_Returns ==
  /\ pc # "raised"
  /\ pc = "done" =>
       /\ KeySet(results) = Range(dev_list)
       /\ \A d \in KeySet(results) : results[d] \in {"Success", "Failed"}

DevEntries(l, r, p) ==
  { k \in DOMAIN l : l[k].run = r /\ l[k].pos = p /\ l[k].fn \in DevFns }
StageRank(fn) ==
  CASE fn = "create_dev_user" -> 1 [] fn = "configure_sudo" -> 2 [] fn = "setup_ssh_keys" -> 3
Failing(e) == e.res # "ok" /\ e.op # "cat"

C3_Step ==
  (Len(log') > Len(log) /\ Last(log').fn \in DevFns) =>
    LET e == Last(log')
        prior == DevEntries(log, e.run, e.pos)
    IN  /\ \A k \in prior : ~Failing(log[k]) /\ log[k].op # "cat"
        /\ \A k \in prior : StageRank(log[k].fn) <= StageRank(e.fn)
        /\ (e.op = "useradd") = (prior = {})
        /\ e.fn = "configure_sudo" =>
             \E k \in prior : log[k].op = "useradd" /\ log[k].res = "ok"
        /\ e.fn = "setup_ssh_keys" =>
             \E k \in prior : /\ log[k].fn = "configure_sudo" /\ log[k].op = "chmod"
                              /\ log[k].res = "ok"
        /\ Failing(e) => pc' = "record" /\ success' = "False"
        /\ e.op = "cat" => pc' = "record" /\ success' = "True"

\* C3: within one create_dev_user call the stages come in the order account,
\* sudo grant, SSH provisioning; a stage is attempted only after the previous
\* one succeeded; the first unsuccessful stage makes the call fail; after a
\* failure or completion no further operation is issued for that call.
C3_StageOrder == [][C3_Step]_vars

C3_Witness ==
  /\ pc = "record" /\ success = "True" /\ i = 2
  /\ \E k \in DevEntries(log, run, 1) : Failing(log[k]) /\ log[k].fn = "setup_ssh_keys"

C4_Step ==
  /\ (Len(log') > Len(log) /\ Last(log').fn \in DevFns) =>
       LET e == Last(log')
           earlier == { k \in DOMAIN log : log[k].run = e.run }
       IN  /\ \A k \in earlier : log[k].fn \in DevFns /\ log[k].pos <= e.pos
           /\ \A p \in 1..(e.pos - 1) :
                \E k \in DevEntries(log, e.run, p) : Failing(log[k]) \/ log[k].op = "cat"
  /\ pc' = "done" =>
       \A p \in DOMAIN dev_list :
         Cardinality({ k \in DevEntries(log', run', p) : log'[k].op = "useradd" }) = 1

\* C4: developers are handled one at a time in input order: an operation for
\* a position is issued only when every earlier position has finished, and by
\* the time create_devs returns every position was attempted exactly once.
C4_Sequential == [][C4_Step]_vars

C4_Witness ==
  /\ pc = "done" /\ Len(dev_list) = MaxLen
  /\ UseraddFailedAt(1) /\ StagesOkAt(MaxLen)

SshSucceeded(d) == \E k \in DOMAIN log : log[k].op = "cat" /\ log[k].path = IdRsa(d)

\* C5: once setup_ssh_keys has returned True for D, D's SSH directory has
\* mode 700, id_rsa mode 600, authorized_keys exists, is empty and has mode
\* 600, and there is no id_rsa.pub.
C5_SshLayout ==
  \A d \in Devs :
    SshSucceeded(d) =>
      /\ Exists(fs, SshDir(d)) /\ fs[SshDir(d)].mode = 700
      /\ Exists(fs, IdRsa(d)) /\ fs[IdRsa(d)].mode = 600
      /\ Exists(fs, AuthKeys(d)) /\ fs[AuthKeys(d)].mode = 600
      /\ fs[AuthKeys(d)].lines = << >>
      /\ ~Exists(fs, IdRsaPub(d))

C5_Witness == pc = "done" /\ \E d \in Devs : SshSucceeded(d)

\* configure_sudo has returned True for d.
SudoGranted(d) ==
  \E k \in DOMAIN log :
    /\ log[k].fn = "configure_sudo" /\ log[k].op = "chmod"
    /\ log[k].path = SudoersFile(d) /\ log[k].res = "ok"
GrantFileOk(d) ==
  /\ Exists(fs, SudoersFile(d))
  /\ fs[SudoersFile(d)].mode = 440
  /\ fs[SudoersFile(d)].lines = << <<d, "ALL=(ALL)", "NOPASSWD:ALL">> >>

\* C6 as stated: after a run, every developer given to it has a sudoers file
\* of mode 440 holding exactly the one NOPASSWD rule.
C6_AllGranted ==
  pc = "done" => \A d \in Range(dev_list) : GrantFileOk(d)

\* C6 amended: every developer whose sudo grant succeeded, which includes
\* every developer reported "Success", has from then on a sudoers file of mode
\* 440 holding exactly the one NOPASSWD rule.
C6_GrantedHasFile ==
  \A d \in Devs :
    /\ results[d] = "Success" => SudoGranted(d)
    /\ SudoGranted(d) => GrantFileOk(d)

C6_Witness ==
  /\ pc = "done"
  /\ \E d \in Range(dev_list) : SudoGranted(d) /\ results[d] = "Failed"
  /\ \E d \in Range(dev_list) : ~SudoGranted(d)

SharedLayoutOk(d) ==
  /\ fs[UserProjectDir(d, project_name)].kind = "dir"
  /\ fs[UserProjectDir(d, project_name)].owner = d
  /\ Exists(fs, UserPublicLink(d, project_name))
  /\ Resolve(fs, UserPublicLink(d, project_name)) = PublicDir(project_name)
  /\ fs[PublicDir(project_name)].kind = "dir"

\* C7 as stated: after a run with a project name, every developer of the list
\* has a project directory of their own whose `public` entry resolves to the
\* shared public directory.
C7_AllLinked ==
  (pc = "done" /\ project_name # None) =>
    \A d \in Range(dev_list) : SharedLayoutOk(d)

\* C7 amended: after a run with a project name in which create_shared_project
\* returned True, every developer of the list has a project directory of
\* their own whose `public` entry resolves to the shared public directory.
C7_LinkedOnSuccess ==
  (pc = "done" /\ project_name # None /\ shared_ok = "True") =>
    \A d \in Range(dev_list) : SharedLayoutOk(d)

C7_Witness ==
  /\ pc = "done" /\ project_name # None /\ shared_ok = "True"
  /\ Len(dev_list) = 2 /\ Distinct(dev_list)
  /\ results[dev_list[1]] = "Failed" /\ results[dev_list[2]] = "Success"

\* C8: after create_shared_project succeeded for a non-empty developer list,
\* /opt/P and /opt/P/public have mode 755 and belong to root.
C8_SharedDirsSystemOwned ==
  (pc = "done" /\ shared_ok = "True" /\ dev_list # << >>) =>
    /\ fs[RootProjectDir(project_name)] = Dir(Root, 755)
    /\ fs[PublicDir(project_name)] = Dir(Root, 755)

SharedFn == "create_shared_project"
\* create_shared_project returned True in run r.
SharedSucceededIn(r) ==
  \E k \in DOMAIN log :
    /\ log[k].run = r /\ log[k].fn = SharedFn /\ log[k].res = "ok"
    /\ IF dev_list = << >>
       THEN log[k].op = "chmod" /\ log[k].path = PublicDir(project_name)
       ELSE /\ log[k].op = "chown" /\ log[k].pos = Len(dev_list)
            /\ log[k].path = UserPublicLink(dev_list[Len(dev_list)], project_name)
LinksMade(d) ==
  { k \in DOMAIN log : /\ log[k].op = "ln-s" /\ log[k].res = "ok"
                       /\ log[k].path = UserPublicLink(d, project_name) }

\* C9: when create_shared_project is run again with the same list and project
\* after a run in which it succeeded, it succeeds again (unless the
\* environment fails an operation), issues no ln, leaves each developer with
\* the one link made before, still pointing at the shared public directory,
\* and issues the chown on every developer's link again.
C9_LinkIdempotent ==
  (pc = "done" /\ run > 1 /\ project_name # None /\ SharedSucceededIn(run - 1)) =>
    /\ (~\E k \in DOMAIN log :
           log[k].run = run /\ log[k].fn = SharedFn /\ log[k].injected)
         => shared_ok = "True"
    /\ ~\E k \in DOMAIN log : log[k].run = run /\ log[k].op = "ln-s"
    /\ \A d \in Range(dev_list) :
         /\ Cardinality(LinksMade(d)) = 1
         /\ fs[UserPublicLink(d, project_name)] = Link(Root, PublicDir(project_name))
    /\ shared_ok = "True" =>
         \A d \in Range(dev_list) :
           \E k \in DOMAIN log :
             /\ log[k].run = run /\ log[k].op = "chown" /\ log[k].user = d
             /\ log[k].path = UserPublicLink(d, project_name) /\ log[k].res = "ok"

C9_Witness ==
  /\ pc = "done" /\ run = 2 /\ project_name # None /\ SharedSucceededIn(1)
  /\ shared_ok = "True" /\ Len(dev_list) = 2 /\ Distinct(dev_list)

SharedPcs ==
  {"sp_mkdir_root", "sp_chown_root", "sp_chmod_root", "sp_mkdir_public",
   "sp_chown_public", "sp_chmod_public", "sp_loop", "sp_mkdir_user",
   "sp_chown_user", "sp_chmod_user", "sp_exists", "sp_ln", "sp_chown_link"}

\* C10: with an empty developer list (handed to create_devs, or read by
\* main), no operation is issued, the shared-project step is never entered
\* even with a project name, and the result mapping is empty.
C10_EmptyInputNoOp ==
  (pc # "main" /\ dev_list = << >>) =>
    /\ log = << >>
    /\ pc \notin SharedPcs
    /\ results = NoResults

\* The entries of run r issued by create_shared_project.
SharedEntries(r) == { k \in DOMAIN log : log[k].run = r /\ log[k].fn = SharedFn }
\* Position p of run r has finished: its create_dev_user call failed or
\* reached its last operation.
FinishedIn(r, p) ==
  \E k \in DevEntries(log, r, p) : Failing(log[k]) \/ log[k].op = "cat"

\* C11: per run the shared-project step is entered at most once, only with a
\* project name, only after every position of the list has finished, and it
\* works through the whole input list, developers reported "Failed" included.
C11_SharedStepOnceAtEnd ==
  /\ pc \in SharedPcs => project_name # None
  /\ \A r \in 1..run :
       /\ Cardinality({ k \in SharedEntries(r) :
                          log[k].op = "mkdir-p" /\ log[k].pos = 0 /\ log[k].path[1] = "opt" }) <= 1
       /\ SharedEntries(r) # {} =>
            /\ project_name # None
            /\ \A p \in DOMAIN dev_list : FinishedIn(r, p)
            /\ \A k \in SharedEntries(r) :
                 /\ \A m \in DOMAIN log :
                      (log[m].run = r /\ log[m].fn \in DevFns) => m < k
                 /\ log[k].pos > 0 =>
                      /\ log[k].pos \in DOMAIN dev_list
                      /\ log[k].path[2] = dev_list[log[k].pos]
  /\ (pc = "done" /\ shared_ok = "True") =>
       \A p \in DOMAIN dev_list :
         \E k \in SharedEntries(run) :
           /\ log[k].pos = p /\ log[k].op = "mkdir-p"
           /\ log[k].path = UserProjectDir(dev_list[p], project_name)

C11_Witness ==
  /\ pc = "done" /\ shared_ok = "True" /\ Len(dev_list) = 2
  /\ results[dev_list[1]] = "Failed"
  /\ \E k \in SharedEntries(run) : log[k].pos = 1

\* What create_devs hands back to its caller (line 109: return results).
ReturnValue == results
SharedOutcomeIn(v) == IF "shared_project" \in DOMAIN v THEN v["shared_project"] ELSE None

\* C12: with a project name, the value returned by create_devs carries the
\* outcome of the shared-project step next to the per-developer outcomes.
C12_ReturnHasSharedOutcome ==
  (pc = "done" /\ project_name # None) => SharedOutcomeIn(ReturnValue) = shared_ok

\* In run r the operation `op` on `path` issued for position p ended ok.
OkIn(r, p, op, path) ==
  \E k \in DevEntries(log, r, p) :
    log[k].op = op /\ log[k].path = path /\ log[k].res = "ok"
\* Every developer of the list was provisioned completely in run r.
FullySuccessful(r) ==
  \A p \in DOMAIN dev_list :
    /\ OkIn(r, p, "useradd", Home(dev_list[p]))
    /\ OkIn(r, p, "chmod", SudoersFile(dev_list[p]))
    /\ OkIn(r, p, "rm", IdRsaPub(dev_list[p]))

C13_Step ==
  (run > 1 /\ dev_list # << >> /\ FullySuccessful(1)) =>
    /\ \A d \in Range(dev_list) :
         /\ fs'[SudoersFile(d)] = fs[SudoersFile(d)]
         /\ fs'[IdRsa(d)] = fs[IdRsa(d)]
         /\ fs'[AuthKeys(d)] = fs[AuthKeys(d)]
    /\ Len(log') > Len(log) =>
         /\ Last(log').fn \notin {"configure_sudo", "setup_ssh_keys"}
         /\ Last(log').op = "useradd" => Last(log').res = "CalledProcessError"
    /\ pc' = "done" => \A d \in Range(dev_list) : results'[d] = "Failed"

\* C13: in a run that follows a fully successful run over the same list,
\* every useradd fails, every developer is reported "Failed", no sudo or SSH
\* operation is issued, and the sudoers file, private key and authorized_keys
\* of the first run stay as they were.
C13_RerunFailsAtAccount == [][C13_Step]_vars

C13_Witness ==
  /\ pc = "done" /\ run = 2 /\ Len(dev_list) = 2 /\ FullySuccessful(1)
  /\ \A d \in Range(dev_list) : results[d] = "Failed"

\* C14: a create_dev_user call that failed leaves what its earlier steps
\* made: the account and home of a successful useradd, the sudoers file (mode
\* 440, one rule) of a successful grant, and the SSH directory and files made
\* before the failing step; right after the call the developer is recorded
\* as "Failed".
C14_NoRollback ==
  /\ \A p \in DOMAIN dev_list :
       (\E k \in DevEntries(log, run, p) : Failing(log[k])) =>
         LET d == dev_list[p]
         IN  /\ OkAt(p, "useradd", Home(d)) => d \in accounts /\ Exists(fs, Home(d))
             /\ OkAt(p, "chmod", SudoersFile(d)) => GrantFileOk(d)
             /\ OkAt(p, "mkdir-p", SshDir(d)) => Exists(fs, SshDir(d))
             /\ OkAt(p, "ssh-keygen", IdRsa(d)) =>
                  Exists(fs, IdRsa(d)) /\ Exists(fs, IdRsaPub(d))
             /\ OkAt(p, "touch", AuthKeys(d)) => Exists(fs, AuthKeys(d))
  /\ (pc = "devs_loop" /\ i > 0 /\ success = "False") => results[dev] = "Failed"

C14_Witness ==
  /\ pc = "done"
  /\ \E p \in DOMAIN dev_list :
       /\ OkAt(p, "touch", AuthKeys(dev_list[p]))
       /\ \E k \in DevEntries(log, run, p) : Failing(log[k])
       /\ results[dev_list[p]] = "Failed"

\* C15: when any operation of setup_ssh_keys fails, the step of surfacing the
\* private key (cat) included, the call reports failure.
C15_AnySshFailureFails ==
  (pc = "record" /\ \E k \in DevEntries(log, run, i) :
                      log[k].fn = "setup_ssh_keys" /\ log[k].res # "ok")
    => success = "False"

C16_Step ==
  /\ (Len(log') > Len(log) /\ Last(log').fn = SharedFn) =>
       LET e == Last(log')
           prior == SharedEntries(e.run)
       IN  /\ \A k \in prior : log[k].res = "ok" /\ log[k].pos <= e.pos
           /\ e.res # "ok" =>
                /\ pc' = "return" /\ shared_ok' = "False"
                /\ \A q \in Paths : Exists(fs, q) => fs'[q] = fs[q]
  /\ (pc = "return" /\ shared_ok = "False") => fs' = fs /\ log' = log

\* C16: create_shared_project takes the developers in list order; its first
\* failing operation ends the call with False, no operation is issued for a
\* later developer, and what was created before stays in place.
C16_SharedAbortsOnFailure == [][C16_Step]_vars

C16_Witness ==
  /\ pc = "done" /\ shared_ok = "False" /\ Len(dev_list) = 2
  /\ Exists(fs, PublicDir(project_name))
  /\ Exists(fs, UserProjectDir(dev_list[1], project_name))
  /\ \E k \in SharedEntries(run) : log[k].pos = 1 /\ log[k].res # "ok"
  /\ ~\E k \in SharedEntries(run) : log[k].pos = 2

SudoPcs == {"sudo_write", "sudo_chmod"}

C17_Step ==
  /\ (Len(log') > Len(log) /\ Last(log').fn = "configure_sudo") =>
       LET e == Last(log')
       IN  /\ e.op = "chmod" =>
                /\ log # << >>
                /\ Last(log).op = "write" /\ Last(log).res = "ok"
                /\ Last(log).path = e.path /\ Last(log).run = e.run /\ Last(log).pos = e.pos
                /\ e.mode = 440
           /\ e.res # "ok" => pc' = "record" /\ success' = "False"
           /\ (e.op = "chmod" /\ e.res # "ok") =>
                /\ fs'[e.path].lines = << <<dev, "ALL=(ALL)", "NOPASSWD:ALL">> >>
                /\ fs'[e.path].mode # 440
  /\ (pc \in SudoPcs /\ pc' \notin SudoPcs /\ ~(pc' = "record" /\ success' = "False")) =>
       /\ pc' = "ssh_mkdir"
       /\ Last(log').op = "chmod" /\ Last(log').res = "ok"
       /\ fs'[SudoersFile(dev)].mode = 440
       /\ fs'[SudoersFile(dev)].lines = << <<dev, "ALL=(ALL)", "NOPASSWD:ALL">> >>

\* C17: configure_sudo returns True only after the rule was written and the
\* file restricted to 440; the chmod is the operation issued right after the
\* write; a failed write ends the call with False without a chmod; a failed
\* chmod ends it with False and leaves the written file unrestricted.
C17_SudoWriteThenRestrict == [][C17_Step]_vars

C17_Witness ==
  /\ pc = "record" /\ success = "False" /\ log # << >>
  /\ Last(log).fn = "configure_sudo" /\ Last(log).op = "chmod" /\ Last(log).res # "ok"
  /\ Exists(fs, SudoersFile(dev))

\* C18: when a run ends, a developer is reported "Success" exactly when one
\* of its positions in the list went through account creation, sudo grant and
\* SSH provisioning in that run, also when an identifier is listed twice.
C18_ResultsAccurate ==
  pc = "done" =>
    \A d \in Range(dev_list) :
      (results[d] = "Success") <=>
        (\E p \in DOMAIN dev_list : dev_list[p] = d /\ StagesOkAt(p))

\* C19: after setup_ssh_keys returned True for D, the SSH directory, id_rsa
\* and authorized_keys all belong to D.
C19_SshOwnedByDeveloper ==
  \A d \in Devs :
    SshSucceeded(d) =>
      /\ fs[SshDir(d)].owner = d
      /\ fs[IdRsa(d)].owner = d
      /\ fs[AuthKeys(d)].owner = d

\* C20: a generated key is RSA, 4096 bits, at <home>/.ssh/id_rsa, and the
\* passphrase handed to ssh-keygen is the empty string.
C20_KeyParameters ==
  \A k \in DOMAIN log :
    (log[k].op = "ssh-keygen" /\ log[k].res = "ok") =>
      LET d == dev_list[log[k].pos]
      IN  /\ log[k].path = IdRsa(d)
          /\ Exists(fs, IdRsa(d))
          /\ fs[IdRsa(d)].lines = << <<"rsa", "4096", "">> >>
====
